---- MODULE Spec2Model ----
(***************************************************************************)
(* The loading protocol documented by the notebook "Load pipelines,        *)
(* models, and schedulers": from_pretrained() on a pipeline, model or      *)
(* scheduler class, the manifest model_index.json, the checkpoint folder   *)
(* structure, checkpoint variants and torch_dtype, the subfolder argument, *)
(* the local cache of Hub files, save_pretrained() and the reuse of        *)
(* components across pipelines.  The notebooks call an                     *)
(* external library; its behaviour is modelled as the notebook states it.  *)
(* Weights are .bin files, as in the folder structure the notebook shows;  *)
(* the safetensors format and custom_pipeline of the two other notebooks   *)
(* are not modelled.                                                       *)
(*                                                                         *)
(* A file name is the sequence of its dot-separated parts, so              *)
(* diffusion_pytorch_model.fp16.bin is <<"diffusion_pytorch_model",        *)
(* "fp16", "bin">>.  A manifest key is the sequence <<"_", rest>> when it  *)
(* starts with an underscore and <<name>> otherwise.                       *)
(***************************************************************************)
EXTENDS Naturals, Sequences, FiniteSets, TLC

\* Number of revisions (commits) the Hub repository goes through.
MaxRevisions == 2

\* Python's None, as a variant argument / subfolder argument.
None == "None"

\* The root directory of a repository or folder.
Root == ""

\* The repository id used throughout the guide, and the folder git clone makes.
HubRepo == "runwayml/stable-diffusion-v1-5"

LocalClone == "./stable-diffusion-v1-5"

\* What the guide passes as first argument of from_pretrained / save_pretrained.
Locations == {HubRepo, LocalClone}

\* The repository that keeps a model in its root directory, and the folder
\* model.save_pretrained writes.
DdpmRepo == "google/ddpm-cifar10-32"

LocalUnet == "./local-unet"

\* What the guide passes as first argument of a model's from_pretrained.
ModelLocations == {HubRepo, DdpmRepo, LocalUnet}

\* Every path and repository id.
Paths == Locations \cup ModelLocations

\* The model classes the guide loads on their own.
ModelClasses == {"UNet2DConditionModel", "UNet2DModel"}

\* The variant arguments of the "Checkpoint variants" table.
Variants == {"fp16", "non_ema"}

\* The generic loader and the task-specific pipeline classes.
GenericPipeline == "DiffusionPipeline"

PipelineClasses == {"StableDiffusionPipeline", "StableDiffusionImg2ImgPipeline"}

\* Schedulers the guide loads with SchedulerMixin.from_pretrained to swap in.
SwapSchedulers == {"EulerDiscreteScheduler", "DPMSolverMultistepScheduler"}

-----------------------------------------------------------------------------
(* model_index.json *)

ClassNameKey == <<"_", "class_name">>

VersionKey == <<"_", "diffusers_version">>

\* model_index.json of runwayml/stable-diffusion-v1-5.
model_index ==
  (ClassNameKey :> <<"StableDiffusionPipeline">>)
  @@ (VersionKey :> <<"0.6.0">>)
  @@ (<<"feature_extractor">> :> <<"transformers", "CLIPImageProcessor">>)
  @@ (<<"safety_checker">> :> <<"stable_diffusion", "StableDiffusionSafetyChecker">>)
  @@ (<<"scheduler">> :> <<"diffusers", "PNDMScheduler">>)
  @@ (<<"text_encoder">> :> <<"transformers", "CLIPTextModel">>)
  @@ (<<"tokenizer">> :> <<"transformers", "CLIPTokenizer">>)
  @@ (<<"unet">> :> <<"diffusers", "UNet2DConditionModel">>)
  @@ (<<"vae">> :> <<"diffusers", "AutoencoderKL">>)

\* The component (and subfolder) names a manifest lists: its keys that do not
\* start with an underscore.
ComponentNames(manifest) == {k[1] : k \in {k \in DOMAIN manifest : k[1] # "_"}}

\* The pipeline class a manifest names in _class_name.
ManifestPipelineClass(manifest) == manifest[ClassNameKey][1]

\* The class of component n in a manifest's [library, class] entry.
ManifestClass(manifest, n) == manifest[<<n>>][2]

\* The library each class of the guide is loaded from.
LibraryOf(cls) ==
  CASE cls \in {"CLIPImageProcessor", "CLIPTextModel", "CLIPTokenizer"} -> "transformers"
    [] cls = "StableDiffusionSafetyChecker" -> "stable_diffusion"
    [] OTHER -> "diffusers"

-----------------------------------------------------------------------------
(* The folder structure of a checkpoint *)

ManifestFile == [dir |-> Root, name |-> <<"model_index", "json">>]

\* The configuration file a class is created from.
ConfigName(cls) ==
  CASE cls = "CLIPImageProcessor" -> <<"preprocessor_config", "json">>
    [] cls = "CLIPTokenizer" -> <<"tokenizer_config", "json">>
    [] cls \in {"PNDMScheduler"} \cup SwapSchedulers -> <<"scheduler_config", "json">>
    [] OTHER -> <<"config", "json">>

\* The further files of a component that carry no weights.
ExtraNames(cls) ==
  IF cls = "CLIPTokenizer"
  THEN {<<"merges", "txt">>, <<"special_tokens_map", "json">>, <<"vocab", "json">>}
  ELSE {}

\* The name of the original checkpoint's weight file, <<>> for a class that is
\* defined by its configuration alone.
BaseWeightName(cls) ==
  CASE cls \in {"UNet2DConditionModel", "AutoencoderKL", "UNet2DModel"} ->
         <<"diffusion_pytorch_model", "bin">>
    [] cls \in {"StableDiffusionSafetyChecker", "CLIPTextModel"} -> <<"pytorch_model", "bin">>
    [] OTHER -> <<>>

HasWeights(cls) == BaseWeightName(cls) # <<>>

\* The floating point types of the guide; without torch_dtype weights are fp32.
DefaultDtype == "float32"

Dtypes == {"float16"}

\* The floating point type a weight file is stored in: the fp16 variant is
\* stored in torch.float16, the original and the non-EMA weights in fp32;
\* None where there are no weights.
StoredPrecision(weights) ==
  IF weights = <<>> THEN None
  ELSE IF Len(weights) = 3 /\ weights[2] = "fp16" THEN "float16"
  ELSE DefaultDtype

\* (mutation) The variant goes after the extension.
WeightNameSuffixed(base, variant) ==
  IF variant = None THEN base ELSE base \o <<variant>>

\* The weight name of a checkpoint variant: the variant goes before the extension.
WeightName(base, variant) ==
  IF variant = None
  THEN base
  ELSE SubSeq(base, 1, Len(base) - 1) \o <<variant>> \o <<base[Len(base)]>>

\* The weight file from_pretrained / save_pretrained uses for a class.
WeightFiles(cls, dir, variant) ==
  IF HasWeights(cls)
  THEN {[dir |-> dir, name |-> WeightName(BaseWeightName(cls), variant)]}
  ELSE {}

\* The files variant does not touch.
ConfigFiles(cls, dir) ==
  {[dir |-> dir, name |-> nm] : nm \in {ConfigName(cls)} \cup ExtraNames(cls)}

\* (mutation) The variant goes into the name of every file of the component.
ComponentFilesSuffixed(cls, dir, variant) ==
  {[dir |-> dir, name |-> WeightName(nm, variant)] : nm \in {ConfigName(cls)} \cup ExtraNames(cls)}
  \cup WeightFiles(cls, dir, variant)

\* Every file a component of class cls needs in directory dir.
ComponentFiles(cls, dir, variant) == ConfigFiles(cls, dir) \cup WeightFiles(cls, dir, variant)

\* The folder structure of runwayml/stable-diffusion-v1-5.
FolderTree ==
  {[dir |-> "feature_extractor", name |-> <<"preprocessor_config", "json">>],
   [dir |-> Root, name |-> <<"model_index", "json">>],
   [dir |-> "safety_checker", name |-> <<"config", "json">>],
   [dir |-> "safety_checker", name |-> <<"pytorch_model", "bin">>],
   [dir |-> "scheduler", name |-> <<"scheduler_config", "json">>],
   [dir |-> "text_encoder", name |-> <<"config", "json">>],
   [dir |-> "text_encoder", name |-> <<"pytorch_model", "bin">>],
   [dir |-> "tokenizer", name |-> <<"merges", "txt">>],
   [dir |-> "tokenizer", name |-> <<"special_tokens_map", "json">>],
   [dir |-> "tokenizer", name |-> <<"tokenizer_config", "json">>],
   [dir |-> "tokenizer", name |-> <<"vocab", "json">>],
   [dir |-> "unet", name |-> <<"config", "json">>],
   [dir |-> "unet", name |-> <<"diffusion_pytorch_model", "bin">>],
   [dir |-> "vae", name |-> <<"config", "json">>],
   [dir |-> "vae", name |-> <<"diffusion_pytorch_model", "bin">>]}

\* The files of the repository on the Hub: the folder structure, and beside each
\* weight file its fp16 and non_ema variants.
HubFiles ==
  FolderTree
  \cup {[dir |-> f.dir, name |-> <<f.name[1], v, f.name[2]>>] :
          f \in {g \in FolderTree : g.name[2] = "bin"}, v \in Variants}

-----------------------------------------------------------------------------
(* Objects *)

\* A component instance: its class, its identity, where it was loaded from
\* (location, directory, weight file), the revision of what was read and the
\* floating point type of its weights in memory.
NoneComponent ==
  [cls |-> "NoneType", id |-> 0, loc |-> None, dir |-> Root, weights |-> <<>>, rev |-> 0,
   dtype |-> None]

NoComponents == [n \in {} |-> NoneComponent]

NoPipeline == [cls |-> "NoneType", components |-> NoComponents]

NoFiles == [f \in {} |-> 0]

\* A path that is no directory on the local disk.
NoFolder == [exists |-> FALSE, manifest |-> [k \in {} |-> <<>>], files |-> NoFiles]

VARIABLES
  hubRev,      \* the latest revision of the repository on the Hub
  cache,       \* the local cache: the newest snapshot held, and its files
  folders,     \* the local disk: for every path, the folder there
  pipe,        \* the pipeline the last successful from_pretrained returned
  scheduler,   \* the scheduler the last successful scheduler load returned
  model,       \* the model the last successful model load returned
  served,      \* the files successful Hub loads needed since the last remote change
  last         \* the call just made and how it ended

vars == <<hubRev, cache, folders, pipe, scheduler, model, served, last>>

-----------------------------------------------------------------------------
(* Where from_pretrained reads from *)

\* from_pretrained detects a local path: the argument is a directory on disk.
IsLocalPath(arg) == folders[arg].exists

\* The latest revision of the repository on the Hub.
HubView == [exists |-> TRUE, manifest |-> model_index, files |-> [f \in HubFiles |-> hubRev]]

\* The model repository on the Hub: configuration and weights in its root.
DdpmFiles ==
  {[dir |-> Root, name |-> <<"config", "json">>],
   [dir |-> Root, name |-> <<"diffusion_pytorch_model", "bin">>]}

DdpmView ==
  [exists |-> TRUE, manifest |-> [k \in {} |-> <<>>], files |-> [f \in DdpmFiles |-> 1]]

\* The checkpoint a first argument denotes: the local folder when it is a local
\* path, else the Hub repository of that id, else nothing.
View(arg) ==
  IF IsLocalPath(arg) THEN folders[arg]
  ELSE IF arg = HubRepo THEN HubView
  ELSE IF arg = DdpmRepo THEN DdpmView
  ELSE NoFolder

\* The files of the newest snapshot that are already in the local cache.
CachedLatest == IF cache.rev = hubRev THEN cache.files ELSE {}

\* The files a call downloads: those it needs that the cache lacks at the
\* latest revision.
Download(needed) == needed \ CachedLatest

\* (mutation) What was downloaded is not kept.
CachedNothingNew(needed) == [rev |-> hubRev, files |-> CachedLatest]

\* The cache after a call that needed these files.
Cached(needed) == [rev |-> hubRev, files |-> CachedLatest \cup needed]

-----------------------------------------------------------------------------
(* DiffusionPipeline.from_pretrained *)

\* (mutation) The calling class is instantiated, generic or not.
ReturnedClassOfCaller(caller, manifest) == caller

\* (mutation) The class the checkpoint names is instantiated, whoever calls.
ReturnedClassOfManifest(caller, manifest) == ManifestPipelineClass(manifest)

\* The class of the returned pipeline: the calling class, or for the generic
\* DiffusionPipeline the class the checkpoint names.
ReturnedClass(caller, manifest) ==
  IF caller = GenericPipeline THEN ManifestPipelineClass(manifest) ELSE caller

\* (mutation) Every component of the manifest is looked for, passed or not.
ToLoadAll(manifest, overrides) == ComponentNames(manifest)

\* The components from_pretrained has to load itself.
ToLoad(manifest, overrides) == ComponentNames(manifest) \ DOMAIN overrides

\* The files a load needs: the manifest, and the files of each component that is
\* not passed by the caller, in the subfolder of the component's name.
Required(manifest, variant, overrides) ==
  {ManifestFile}
  \cup UNION {ComponentFiles(ManifestClass(manifest, n), n, variant) :
               n \in ToLoad(manifest, overrides)}

\* The folder structure required for inference, which a load from the Hub
\* downloads and caches: the manifest and the files of every component.
FolderStructure(manifest, variant) == Required(manifest, variant, NoComponents)

\* (mutation) Only the configuration files are looked for.
CanLoadWithoutWeights(view, variant, overrides) ==
  /\ view.exists
  /\ ManifestFile \in DOMAIN view.files
  /\ \A n \in ToLoad(view.manifest, overrides) :
       ConfigFiles(ManifestClass(view.manifest, n), n) \subseteq DOMAIN view.files

\* (mutation) A pipeline is made of the components that are found.
CanLoadPartial(view, variant, overrides) ==
  /\ view.exists
  /\ ManifestFile \in DOMAIN view.files
  /\ \E n \in ToLoad(view.manifest, overrides) :
       ComponentFiles(ManifestClass(view.manifest, n), n, variant) \subseteq DOMAIN view.files

\* The load succeeds when the checkpoint has a manifest and every needed file.
CanLoad(view, variant, overrides) ==
  /\ view.exists
  /\ ManifestFile \in DOMAIN view.files
  /\ Required(view.manifest, variant, overrides) \subseteq DOMAIN view.files

\* The revision of a file of a checkpoint, 0 when the checkpoint has no such file.
Revision(view, file) == IF file \in DOMAIN view.files THEN view.files[file] ELSE 0

\* (mutation) The component is created from the root directory.
LoadComponentFromRoot(view, loc, cls, dir, variant, id) ==
  LET weights == IF HasWeights(cls) THEN WeightName(BaseWeightName(cls), variant) ELSE <<>>
      read == [dir |-> Root, name |-> IF HasWeights(cls) THEN weights ELSE ConfigName(cls)]
  IN [cls |-> cls, id |-> id, loc |-> loc, dir |-> Root, weights |-> weights,
      rev |-> Revision(view, read), dtype |-> StoredPrecision(weights)]

\* An instance of cls created from directory dir of a checkpoint, with the
\* weights as they are stored.
LoadComponent(view, loc, cls, dir, variant, id) ==
  LET weights == IF HasWeights(cls) THEN WeightName(BaseWeightName(cls), variant) ELSE <<>>
      read == [dir |-> dir, name |-> IF HasWeights(cls) THEN weights ELSE ConfigName(cls)]
  IN [cls |-> cls, id |-> id, loc |-> loc, dir |-> dir, weights |-> weights,
      rev |-> Revision(view, read), dtype |-> StoredPrecision(weights)]

\* (mutation) What the caller passed is not looked at.
ComponentIgnoringPassed(view, loc, n, variant, overrides, id) ==
  LoadComponent(view, loc, ManifestClass(view.manifest, n), n, variant, id)

\* (mutation) A component passed as None counts as not passed.
ComponentNoneAsDefault(view, loc, n, variant, overrides, id) ==
  IF n \in DOMAIN overrides /\ overrides[n] # NoneComponent
  THEN overrides[n]
  ELSE LoadComponent(view, loc, ManifestClass(view.manifest, n), n, variant, id)

\* The component assembled under name n: what the caller passed, else the
\* manifest's class loaded from subfolder n.
Component(view, loc, n, variant, overrides, id) ==
  IF n \in DOMAIN overrides
  THEN overrides[n]
  ELSE LoadComponent(view, loc, ManifestClass(view.manifest, n), n, variant, id)

\* The pipeline from_pretrained returns.
Assemble(view, loc, caller, variant, overrides, id) ==
  [cls |-> ReturnedClass(caller, view.manifest),
   components |-> [n \in ComponentNames(view.manifest) |->
                     Component(view, loc, n, variant, overrides, id)]]

\* (mutation) Without torch_dtype the weights stay as they are stored.
ConvertIfGiven(c, torch_dtype) ==
  IF c.weights = <<>> \/ torch_dtype = None THEN c ELSE [c EXCEPT !.dtype = torch_dtype]

\* torch_dtype defines the precision of the loaded weights: they are converted
\* to torch_dtype, and to the default fp32 when it is not given.
Convert(c, torch_dtype) ==
  IF c.weights = <<>>
  THEN c
  ELSE [c EXCEPT !.dtype = IF torch_dtype = None THEN DefaultDtype ELSE torch_dtype]

\* The pipeline from_pretrained returns, the weights it loaded converted.
Load(view, loc, caller, variant, overrides, torch_dtype, id) ==
  LET p == Assemble(view, loc, caller, variant, overrides, id)
  IN [cls |-> p.cls,
      components |-> [n \in DOMAIN p.components |->
                        IF n \in DOMAIN overrides
                        THEN p.components[n]
                        ELSE Convert(p.components[n], torch_dtype)]]

\* The components of a load whose weights are read into RAM.
WeightsRead(manifest, overrides) ==
  {n \in ToLoad(manifest, overrides) : HasWeights(ManifestClass(manifest, n))}

\* (mutation) The Hub is asked also when the argument is a local path.
NeedsAlsoLocally(arg, variant) ==
  IF ~View(arg).exists
  THEN {}
  ELSE FolderStructure(View(arg).manifest, variant) \cap HubFiles

\* The files a pipeline load fetches from the Hub: nothing when the argument is
\* a local path (or no repository), else the folder structure of the variant.
Needs(arg, variant) ==
  IF IsLocalPath(arg) \/ ~View(arg).exists
  THEN {}
  ELSE FolderStructure(View(arg).manifest, variant) \cap HubFiles

\* The file a scheduler load fetches from the Hub.
SchedulerNeeds(arg, file) ==
  IF IsLocalPath(arg) \/ ~View(arg).exists THEN {} ELSE {file} \cap HubFiles

-----------------------------------------------------------------------------
(* Identities *)

InstancesOf(p) == {p.components[n] : n \in DOMAIN p.components}

\* The identity of a newly created object: one that no object in kept has,
\* where kept are the objects that are still held once the call has returned.
FreshId(kept) ==
  LET used == {c.id : c \in kept}
  IN CHOOSE i \in 1..(Cardinality(used) + 1) :
       /\ i \notin used
       /\ \A j \in 1..(i - 1) : j \in used

\* The objects the caller passed.
Passed(overrides) == {overrides[n] : n \in DOMAIN overrides}

\* What a caller can pass for component n: None, the component of the pipeline
\* it holds, or (as scheduler) the scheduler it loaded.
OverrideValues(n) ==
  {NoneComponent}
  \cup (IF n \in DOMAIN pipe.components THEN {pipe.components[n]} ELSE {})
  \cup (IF n = "scheduler" THEN {scheduler} ELSE {})

\* The sets of components a call names in its keyword arguments: none, any
\* one component, or a pair the guide passes together.
PassedNames ==
  {{}}
  \cup {{n} : n \in ComponentNames(model_index)}
  \cup {{"scheduler", "safety_checker"}, {"safety_checker", "feature_extractor"}}

\* The keyword arguments naming components.
OverrideChoices ==
  UNION {{ov \in [S -> UNION {OverrideValues(n) : n \in S}] :
            \A n \in S : ov[n] \in OverrideValues(n)} : S \in PassedNames}

-----------------------------------------------------------------------------
(* The calls *)

NoCall ==
  [op |-> "none", caller |-> None, arg |-> None, variant |-> None, subfolder |-> None,
   torch_dtype |-> None, overrides |-> NoComponents, ok |-> FALSE, local |-> FALSE, downloaded |-> {},
   loaded |-> {}, read |-> {}, covered |-> FALSE, prior |-> FALSE, result |-> NoPipeline]

\* pipe = Caller.from_pretrained(arg, variant=variant, torch_dtype=torch_dtype,
\*                               **overrides)
FromPretrained(caller, arg, variant, overrides, torch_dtype) ==
  LET local == IsLocalPath(arg)
      view == View(arg)
      ok == CanLoad(view, variant, overrides)
      needed == Needs(arg, variant)
      result == IF ok
                THEN Load(view, arg, caller, variant, overrides, torch_dtype,
                          FreshId(Passed(overrides) \cup {scheduler, model}))
                ELSE NoPipeline
  IN /\ cache' = IF local \/ ~view.exists THEN cache ELSE Cached(needed)
     /\ pipe' = IF ok THEN result ELSE pipe
     /\ served' = IF ok /\ ~local THEN served \cup needed ELSE served
     /\ last' = [NoCall EXCEPT
                   !.op = "from_pretrained", !.caller = caller, !.arg = arg,
                   !.variant = variant, !.torch_dtype = torch_dtype,
                   !.overrides = overrides, !.ok = ok,
                   !.local = local, !.downloaded = Download(needed),
                   !.loaded = IF ok THEN WeightsRead(view.manifest, overrides) ELSE {},
                   !.read = Required(view.manifest, variant, overrides),
                   !.covered = (needed # {} /\ needed \subseteq served),
                   !.prior = (served # {}),
                   !.result = result]
     /\ UNCHANGED <<hubRev, folders, scheduler, model>>

\* (mutation) The subfolder argument is not looked at.
DirectoryIgnored(subfolder) == Root

\* The directory a model or scheduler is loaded from: the subfolder, or the
\* root of the repository when no subfolder is given.
Directory(subfolder) == IF subfolder = None THEN Root ELSE subfolder

\* scheduler = Cls.from_pretrained(arg, subfolder=subfolder)
SchedulerFromPretrained(cls, arg, subfolder) ==
  LET local == IsLocalPath(arg)
      view == View(arg)
      dir == Directory(subfolder)
      file == [dir |-> dir, name |-> ConfigName(cls)]
      ok == view.exists /\ file \in DOMAIN view.files
      needed == SchedulerNeeds(arg, file)
  IN /\ cache' = IF local \/ ~view.exists THEN cache ELSE Cached(needed)
     /\ scheduler' = IF ok
                     THEN LoadComponent(view, arg, cls, dir, None,
                                        FreshId(InstancesOf(pipe) \cup {model}))
                     ELSE scheduler
     /\ served' = IF ok /\ ~local THEN served \cup needed ELSE served
     /\ last' = [NoCall EXCEPT
                   !.op = "scheduler_from_pretrained", !.caller = cls, !.arg = arg,
                   !.subfolder = subfolder, !.ok = ok, !.local = local,
                   !.downloaded = Download(needed),
                   !.covered = (needed # {} /\ needed \subseteq served),
                   !.prior = (served # {})]
     /\ UNCHANGED <<hubRev, folders, pipe, model>>

\* model = Cls.from_pretrained(arg, subfolder=subfolder, variant=variant,
\*                             torch_dtype=torch_dtype)
ModelFromPretrained(cls, arg, subfolder, variant, torch_dtype) ==
  LET local == IsLocalPath(arg)
      view == View(arg)
      dir == Directory(subfolder)
      files == ComponentFiles(cls, dir, variant)
      ok == view.exists /\ files \subseteq DOMAIN view.files
      needed == IF local \/ ~view.exists THEN {} ELSE files \cap DOMAIN view.files
  IN /\ cache' = IF local \/ ~view.exists THEN cache ELSE Cached(needed)
     /\ model' = IF ok
                 THEN Convert(LoadComponent(view, arg, cls, dir, variant,
                                            FreshId(InstancesOf(pipe) \cup {scheduler})),
                              torch_dtype)
                 ELSE model
     /\ served' = IF ok /\ ~local THEN served \cup needed ELSE served
     /\ last' = [NoCall EXCEPT
                   !.op = "model_from_pretrained", !.caller = cls, !.arg = arg,
                   !.subfolder = subfolder, !.variant = variant,
                   !.torch_dtype = torch_dtype, !.ok = ok, !.local = local,
                   !.downloaded = Download(needed),
                   !.loaded = IF ok THEN {dir} ELSE {},
                   !.covered = (needed # {} /\ needed \subseteq served),
                   !.prior = (served # {})]
     /\ UNCHANGED <<hubRev, folders, pipe, scheduler>>

\* model.save_pretrained(path, variant=variant): the configuration and the
\* weights of the model go to the root of the folder.
ModelSavePretrained(path, variant) ==
  /\ model # NoneComponent
  /\ folders' = [folders EXCEPT ![path] =
                   [exists |-> TRUE, manifest |-> @.manifest,
                    files |-> [f \in ComponentFiles(model.cls, Root, variant) |-> model.rev]
                              @@ @.files]]
  /\ last' = [NoCall EXCEPT !.op = "model_save_pretrained", !.arg = path,
                             !.variant = variant, !.ok = TRUE]
  /\ UNCHANGED <<hubRev, cache, pipe, scheduler, model, served>>

\* The manifest save_pretrained writes for a pipeline: the folder structure
\* corresponds to the class instances, so it names the pipeline's class and
\* the class of each component it holds.
ManifestOf(p) ==
  (ClassNameKey :> <<p.cls>>)
  @@ (VersionKey :> <<"0.6.0">>)
  @@ [k \in {<<n>> : n \in DOMAIN p.components} |->
        <<LibraryOf(p.components[k[1]].cls), p.components[k[1]].cls>>]

\* The files save_pretrained writes for a pipeline, each with the revision of
\* the component it holds (0 for the manifest, which is written anew).
Written(p, variant) ==
  LET files(n) == ComponentFiles(p.components[n].cls, n, variant)
      all == UNION {files(n) : n \in DOMAIN p.components}
  IN (ManifestFile :> 0)
     @@ [f \in all |-> p.components[f.dir].rev]

\* pipe.save_pretrained(path, variant=variant), of a pipeline that holds all
\* its components; the files are written beside what the folder already holds.
SavePretrained(path, variant) ==
  /\ pipe # NoPipeline
  /\ \A n \in DOMAIN pipe.components : pipe.components[n] # NoneComponent
  /\ folders' = [folders EXCEPT ![path] =
                   [exists |-> TRUE, manifest |-> ManifestOf(pipe),
                    files |-> Written(pipe, variant) @@ @.files]]
  /\ last' = [NoCall EXCEPT !.op = "save_pretrained", !.arg = path, !.variant = variant,
                             !.ok = TRUE]
  /\ UNCHANGED <<hubRev, cache, pipe, scheduler, model, served>>

\* git clone https://huggingface.co/runwayml/stable-diffusion-v1-5
GitClone ==
  /\ ~folders[LocalClone].exists
  /\ folders' = [folders EXCEPT ![LocalClone] = HubView]
  /\ last' = [NoCall EXCEPT !.op = "git_clone", !.arg = LocalClone, !.ok = TRUE]
  /\ UNCHANGED <<hubRev, cache, pipe, scheduler, model, served>>

\* Somebody pushes a change to the checkpoint on the Hub.
RemoteChange ==
  /\ hubRev < MaxRevisions
  /\ hubRev' = hubRev + 1
  /\ served' = {}
  /\ last' = [NoCall EXCEPT !.op = "remote_change", !.ok = TRUE]
  /\ UNCHANGED <<cache, folders, pipe, scheduler, model>>

\* (mutation) The constructor copies the components it is given.
ReusedByCopy(components, disabled) ==
  [n \in DOMAIN components |->
     IF n \in disabled THEN NoneComponent ELSE [components[n] EXCEPT !.id = @ + 1]]

\* The components a constructor call passes on from the held pipeline.
Reused(components, disabled) ==
  [n \in DOMAIN components |-> IF n \in disabled THEN NoneComponent ELSE components[n]]

\* Cls(**pipe.components), or with the components in disabled passed as None;
\* the new pipeline is last.result
Construct(cls, disabled) ==
  /\ pipe # NoPipeline
  /\ last' = [NoCall EXCEPT !.op = "construct", !.caller = cls, !.ok = TRUE,
                             !.overrides = [n \in disabled |-> NoneComponent],
                             !.result = [cls |-> cls,
                                         components |-> Reused(pipe.components, disabled)]]
  /\ UNCHANGED <<hubRev, cache, folders, pipe, scheduler, model, served>>

Init ==
  /\ hubRev = 1
  /\ cache = [rev |-> 0, files |-> {}]
  /\ folders = [p \in Paths |-> NoFolder]
  /\ pipe = NoPipeline
  /\ scheduler = NoneComponent
  /\ model = NoneComponent
  /\ served = {}
  /\ last = NoCall

Callers == PipelineClasses \cup {GenericPipeline}

Next ==
  \/ \E caller \in Callers, arg \in Locations, variant \in Variants \cup {None},
        overrides \in OverrideChoices, torch_dtype \in Dtypes \cup {None} :
       FromPretrained(caller, arg, variant, overrides, torch_dtype)
  \/ \E cls \in SwapSchedulers, arg \in Locations, subfolder \in {None, "scheduler"} :
       SchedulerFromPretrained(cls, arg, subfolder)
  \/ \E path \in Locations, variant \in Variants \cup {None} : SavePretrained(path, variant)
  \/ GitClone
  \/ RemoteChange
  \/ \E cls \in PipelineClasses, disabled \in SUBSET {"safety_checker", "feature_extractor"} :
       Construct(cls, disabled)
  \/ \E cls \in ModelClasses, arg \in ModelLocations, subfolder \in {None, "unet"},
        variant \in Variants \cup {None}, torch_dtype \in Dtypes \cup {None} :
       ModelFromPretrained(cls, arg, subfolder, variant, torch_dtype)
  \/ \E variant \in Variants \cup {None} : ModelSavePretrained(LocalUnet, variant)

\* Every call of the guide, with every argument.  The properties below are
\* checked under the four specifications that follow, each of which fixes the
\* arguments its properties do not depend on.
Spec == Init /\ [][Next]_vars

\* Swapping and reusing components: loads from the Hub with components passed
\* by the caller, scheduler loads, and pipelines constructed from components.
NextSwap ==
  \/ \E overrides \in OverrideChoices :
       FromPretrained(GenericPipeline, HubRepo, None, overrides, None)
  \/ \E cls \in SwapSchedulers, subfolder \in {None, "scheduler"} :
       SchedulerFromPretrained(cls, HubRepo, subfolder)
  \/ \E disabled \in {{}, {"safety_checker", "feature_extractor"}} :
       Construct("StableDiffusionImg2ImgPipeline", disabled)

SpecSwap == Init /\ [][NextSwap]_vars

\* Checkpoint variants: loads of every variant from the Hub and from the local
\* folder, which git clone or save_pretrained creates.
NextVariants ==
  \/ \E arg \in Locations, variant \in Variants \cup {None} :
       FromPretrained(GenericPipeline, arg, variant, NoComponents, None)
  \/ \E variant \in Variants \cup {None} : SavePretrained(LocalClone, variant)
  \/ GitClone

SpecVariants == Init /\ [][NextVariants]_vars

\* Pipeline classes: every calling class on the Hub checkpoint and on folders
\* saved from the pipelines it returned.
NextClasses ==
  \/ \E caller \in Callers, arg \in Locations,
        overrides \in {NoComponents, "scheduler" :> scheduler} :
       FromPretrained(caller, arg, None, overrides, None)
  \/ SchedulerFromPretrained("EulerDiscreteScheduler", HubRepo, "scheduler")
  \/ \E path \in Locations : SavePretrained(path, None)

SpecClasses == Init /\ [][NextClasses]_vars

\* Downloads: loads from the Hub and from a local clone while the checkpoint on
\* the Hub changes.
NextCache ==
  \/ \E arg \in Locations, variant \in Variants \cup {None} :
       FromPretrained(GenericPipeline, arg, variant, NoComponents, None)
  \/ \E arg \in Locations : SchedulerFromPretrained("EulerDiscreteScheduler", arg, "scheduler")
  \/ GitClone
  \/ RemoteChange

SpecCache == Init /\ [][NextCache]_vars

\* Precision: loads of every variant with and without torch_dtype, from the
\* Hub and from the local folder that git clone or save_pretrained creates.
NextPrecision ==
  \/ \E arg \in Locations, variant \in Variants \cup {None}, torch_dtype \in Dtypes \cup {None} :
       FromPretrained(GenericPipeline, arg, variant, NoComponents, torch_dtype)
  \/ \E variant \in {None, "fp16"} : SavePretrained(LocalClone, variant)
  \/ GitClone

SpecPrecision == Init /\ [][NextPrecision]_vars

\* Subfolders: models and schedulers loaded on their own, with and without
\* the subfolder argument, from the Hub and from local folders.
NextSubfolder ==
  \/ \E cls \in ModelClasses, arg \in ModelLocations, subfolder \in {None, "unet"},
        variant \in {None, "non_ema"} :
       ModelFromPretrained(cls, arg, subfolder, variant, None)
  \/ \E arg \in Locations, subfolder \in {None, "scheduler"} :
       SchedulerFromPretrained("EulerDiscreteScheduler", arg, subfolder)
  \/ ModelSavePretrained(LocalUnet, None)
  \/ GitClone

SpecSubfolder == Init /\ [][NextSubfolder]_vars

\* The held pipeline's components with weights, all of them or all but the
\* UNet passed on to the next load, and the safety checker passed as None.
HeldWeights ==
  IF pipe = NoPipeline
  THEN {}
  ELSE LET all == WeightsRead(ManifestOf(pipe), NoComponents)
       IN {[n \in S |-> pipe.components[n]] : S \in {all, all \ {"unet"}}}

PassedOn == {NoComponents, "safety_checker" :> NoneComponent} \cup HeldWeights

\* Passed components and missing files: loads from the Hub and from the local
\* folder that holds the original weights, the fp16 weights or both, with
\* components of the held pipeline passed on.
NextOverride ==
  \/ FromPretrained(GenericPipeline, HubRepo, None, NoComponents, None)
  \/ \E variant \in {None, "fp16"}, overrides \in PassedOn :
       FromPretrained(GenericPipeline, LocalClone, variant, overrides, None)
  \/ \E variant \in {None, "fp16"} : SavePretrained(LocalClone, variant)

SpecOverride == Init /\ [][NextOverride]_vars

-----------------------------------------------------------------------------
(* Properties *)

\* The call just made is a pipeline from_pretrained that returned a pipeline.
Loaded == last.op = "from_pretrained" /\ last.ok

\* The manifest of the checkpoint the call just made read.
ManifestRead == View(last.arg).manifest

\* The keys of a manifest that name components, read off the manifest itself.
PlainKeys(manifest) == DOMAIN manifest \ {<<"_", "class_name">>, <<"_", "diffusers_version">>}

\* C1: after from_pretrained with components passed by the caller, the
\* pipeline holds under every passed name exactly the passed object, and under
\* every other name of the manifest a new instance of the manifest's class,
\* loaded from the subfolder of that name of the checkpoint.
PassedComponentsHeld ==
  Loaded =>
    \A k \in PlainKeys(ManifestRead) :
      LET n == k[1]
          c == last.result.components[n]
      IN IF n \in DOMAIN last.overrides
         THEN c = last.overrides[n]
         ELSE /\ c.cls = ManifestRead[k][2]
              /\ c.loc = last.arg
              /\ c.dir = n
              /\ c \notin Passed(last.overrides)

\* A pipeline was loaded with an EulerDiscreteScheduler passed as scheduler,
\* and holds it in place of the manifest's PNDMScheduler.
SchedulerSwapped ==
  /\ Loaded
  /\ "scheduler" \in DOMAIN last.overrides
  /\ last.overrides["scheduler"].cls = "EulerDiscreteScheduler"
  /\ last.result.components["scheduler"] = last.overrides["scheduler"]
  /\ last.result.components["unet"].cls = "UNet2DConditionModel"

WeightBearing == {"safety_checker", "text_encoder", "unet", "vae"}

OriginalWeights(n) ==
  IF n \in {"unet", "vae"}
  THEN <<"diffusion_pytorch_model", "bin">>
  ELSE <<"pytorch_model", "bin">>

WeightFilesIn(folder) == {f \in DOMAIN folder.files : f.name[Len(f.name)] = "bin"}

OnlyVariants(folder) ==
  /\ folder.exists
  /\ WeightFilesIn(folder) # {}
  /\ \A f \in WeightFilesIn(folder) : Len(f.name) = 3

SavedAs(folder, v) == \E f \in WeightFilesIn(folder) : Len(f.name) = 3 /\ f.name[2] = v

\* C4: on a folder that holds variant weight files only, from_pretrained
\* without variant fails, and from_pretrained with a variant the folder was
\* saved as succeeds.
OnlyVariantFolder ==
  (last.op = "from_pretrained" /\ OnlyVariants(folders[last.arg])) =>
    /\ last.variant = None => ~last.ok
    /\ (last.variant # None /\ SavedAs(folders[last.arg], last.variant)) => last.ok

\* Both calls of the guide on the fp16-only folder: the one that fails ...
OriginalNotFound ==
  /\ last.op = "from_pretrained"
  /\ OnlyVariants(folders[last.arg])
  /\ SavedAs(folders[last.arg], "fp16")
  /\ last.variant = None
  /\ ~last.ok

\* ... and the one that works.
VariantFound ==
  /\ last.op = "from_pretrained"
  /\ OnlyVariants(folders[last.arg])
  /\ last.variant = "fp16"
  /\ last.ok
  /\ last.result.components["vae"].weights = <<"diffusion_pytorch_model", "fp16", "bin">>

\* A pipeline without the identities of its components: two loads give the
\* same result when they give the same pipeline up to identity.
Shape(p) ==
  [cls |-> p.cls,
   components |-> [n \in DOMAIN p.components |-> [p.components[n] EXCEPT !.id = 0]]]

\* The pipeline class named by the manifest the call read.
ClassNamed == ManifestRead[<<"_", "class_name">>][1]

\* What the other of the two callers DiffusionPipeline / StableDiffusionPipeline
\* returns for the arguments of the call just made.
OtherCaller ==
  IF last.caller = GenericPipeline THEN "StableDiffusionPipeline" ELSE GenericPipeline

CallingClassReturned ==
  Loaded =>
    /\ last.caller \in PipelineClasses => last.result.cls = last.caller
    /\ last.result.cls # last.caller =>
         last.caller = GenericPipeline /\ last.result.cls = ClassNamed

\* StableDiffusionImg2ImgPipeline.from_pretrained on the Hub checkpoint, whose
\* manifest names StableDiffusionPipeline, returned an image-to-image pipeline.
Img2ImgFromText2ImgCheckpoint ==
  /\ Loaded
  /\ last.caller = "StableDiffusionImg2ImgPipeline"
  /\ ClassNamed = "StableDiffusionPipeline"
  /\ last.result.cls = "StableDiffusionImg2ImgPipeline"

\* The components passed to the call just made, without safety_checker.
OtherOverrides ==
  [n \in DOMAIN last.overrides \ {"safety_checker"} |-> last.overrides[n]]

\* C7: after from_pretrained with safety_checker=None the pipeline's
\* safety_checker is None, and every other component is what a load with the
\* same arguments but without safety_checker=None assembles.
SafetyCheckerDisabled ==
  (Loaded /\ "safety_checker" \in DOMAIN last.overrides
          /\ last.overrides["safety_checker"] = NoneComponent) =>
    /\ last.result.components["safety_checker"] = NoneComponent
    /\ DOMAIN last.result.components = {k[1] : k \in PlainKeys(ManifestRead)}
    /\ \A n \in DOMAIN last.result.components \ {"safety_checker"} :
         last.result.components[n] =
           Load(View(last.arg), last.arg, last.caller, last.variant, OtherOverrides,
                last.torch_dtype, last.result.components[n].id).components[n]

\* A pipeline was loaded with safety_checker=None: it has no safety checker
\* and the six other components.
LoadedWithoutSafetyChecker ==
  /\ Loaded
  /\ "safety_checker" \in DOMAIN last.overrides
  /\ last.result.components["safety_checker"] = NoneComponent
  /\ last.result.components["feature_extractor"].cls = "CLIPImageProcessor"
  /\ Cardinality({n \in DOMAIN last.result.components :
                    last.result.components[n] # NoneComponent}) = 6

\* The call just made is a from_pretrained, of a pipeline or of a scheduler.
AnyLoad == last.op \in {"from_pretrained", "scheduler_from_pretrained"}

\* C8: a from_pretrained whose argument is a local path downloads nothing,
\* and every component it loads has the revision of the folder's files, not
\* that of the Hub.
LocalLoadsOffline ==
  (AnyLoad /\ last.local) =>
    /\ last.downloaded = {}
    /\ Loaded =>
         \A n \in DOMAIN last.result.components :
           /\ last.result.components[n].loc = last.arg
           /\ \E f \in DOMAIN folders[last.arg].files :
                /\ f.dir = n
                /\ folders[last.arg].files[f] = last.result.components[n].rev

\* A pipeline was loaded from the local clone after the checkpoint on the Hub
\* had changed: it is the pipeline of the revision that was cloned.
StaleCloneLoaded ==
  /\ Loaded
  /\ last.local
  /\ hubRev = 2
  /\ last.downloaded = {}
  /\ \A n \in DOMAIN last.result.components : last.result.components[n].rev = 1

\* The call just made is a load from the Hub.
HubLoad == AnyLoad /\ ~last.local /\ last.arg = HubRepo

ComponentsShared ==
  last.op = "construct" =>
    /\ DOMAIN last.result.components = DOMAIN pipe.components
    /\ \A n \in DOMAIN pipe.components :
         last.result.components[n] =
           (IF n \in DOMAIN last.overrides THEN NoneComponent ELSE pipe.components[n])
    /\ last.loaded = {}

\* An image-to-image pipeline was constructed from all components of a
\* text-to-image pipeline loaded from the Hub.
Img2ImgConstructed ==
  /\ last.op = "construct"
  /\ DOMAIN last.overrides = {}
  /\ pipe.cls = "StableDiffusionPipeline"
  /\ last.result.cls = "StableDiffusionImg2ImgPipeline"
  /\ last.result.components = pipe.components
  /\ pipe.components["unet"].weights = <<"diffusion_pytorch_model", "bin">>

\* The precision torch_dtype asks for: torch.float16, or fp32 when not given.
Asked == IF last.torch_dtype = "float16" THEN "float16" ELSE "float32"

\* C11: the weights of every weight-bearing component a load returns have
\* the precision torch_dtype names, fp32 when torch_dtype is not given,
\* whichever variant's file was read; and torch_dtype has no part in which
\* file is read: that is the variant's file.
PrecisionFromTorchDtype ==
  (Loaded /\ DOMAIN last.overrides = {}) =>
    \A n \in WeightBearing :
      LET c == last.result.components[n]
          o == OriginalWeights(n)
      IN /\ c.dtype = Asked
         /\ c.weights = (IF last.variant = None THEN o ELSE <<o[1], last.variant, o[2]>>)

\* The fp16 variant files were read without torch_dtype: the weights are fp32.
Fp16VariantLoadedAsFp32 ==
  /\ Loaded
  /\ last.variant = "fp16"
  /\ last.torch_dtype = None
  /\ last.result.components["unet"].weights = <<"diffusion_pytorch_model", "fp16", "bin">>
  /\ last.result.components["unet"].dtype = "float32"

\* The original files were read with torch_dtype=torch.float16: the weights
\* are fp16.
OriginalLoadedAsFp16 ==
  /\ Loaded
  /\ last.variant = None
  /\ last.torch_dtype = "float16"
  /\ last.result.components["unet"].weights = <<"diffusion_pytorch_model", "bin">>
  /\ last.result.components["unet"].dtype = "float16"

\* The call just made loads a single model or scheduler, and what it returned.
SingleLoad == last.op \in {"model_from_pretrained", "scheduler_from_pretrained"}

Got == IF last.op = "model_from_pretrained" THEN model ELSE scheduler

\* The directory the call's subfolder argument names.
Named == IF last.subfolder = None THEN "" ELSE last.subfolder

\* The files of a single model or scheduler in directory d: the configuration,
\* and for a model the weights of the variant asked for.
FilesIn(d) ==
  IF last.op = "scheduler_from_pretrained"
  THEN {[dir |-> d, name |-> <<"scheduler_config", "json">>]}
  ELSE {[dir |-> d, name |-> <<"config", "json">>],
        [dir |-> d, name |-> IF last.variant = None
                             THEN <<"diffusion_pytorch_model", "bin">>
                             ELSE <<"diffusion_pytorch_model", last.variant, "bin">>]}

\* C12: a single model or scheduler is loaded exactly when its files are in
\* the directory the subfolder argument names, the root when it is omitted,
\* and what is returned was read from that directory; on a checkpoint that
\* keeps its components in subfolders a load without subfolder finds nothing.
SubfolderResolved ==
  SingleLoad =>
    /\ last.ok <=> FilesIn(Named) \subseteq DOMAIN View(last.arg).files
    /\ last.ok =>
         /\ Got.dir = Named
         /\ Got.loc = last.arg
         /\ \E f \in FilesIn(Named) : Got.rev = View(last.arg).files[f]
         /\ last.op = "model_from_pretrained" =>
              [dir |-> Named, name |-> Got.weights] \in FilesIn(Named)
    /\ (last.subfolder = None /\ last.arg \in Locations) => ~last.ok

\* After the UNet was loaded from the unet subfolder of the Hub repository,
\* the same load without subfolder found nothing.
UnetNotFoundInRoot ==
  /\ last.op = "model_from_pretrained"
  /\ last.arg = HubRepo
  /\ last.subfolder = None
  /\ ~last.ok
  /\ model.loc = HubRepo
  /\ model.dir = "unet"
  /\ model.cls = "UNet2DConditionModel"

\* A model was loaded from the root directory of a repository or folder.
ModelLoadedFromRoot ==
  /\ last.op = "model_from_pretrained"
  /\ last.subfolder = None
  /\ last.ok
  /\ last.arg \in {DdpmRepo, LocalUnet}
  /\ model.dir = Root

\* The files of the folder structure that are no weights, and the components
\* that are defined by such files alone.
PlainFiles == {f \in FolderTree : f.name[Len(f.name)] # "bin"}

ConfigOnly == {"scheduler", "tokenizer", "feature_extractor"}

\* The weight file of component n for the variant of the call just made.
AskedWeights(n) ==
  [dir |-> n,
   name |-> IF last.variant = None
            THEN OriginalWeights(n)
            ELSE <<OriginalWeights(n)[1], last.variant, OriginalWeights(n)[2]>>]

\* C13: whatever the variant, a pipeline load looks for the same unsuffixed
\* manifest, configuration, tokenizer and preprocessor files; it succeeds
\* when those and the variant's weight files are there, so it never fails for
\* lack of a suffixed configuration file; and the components without weights
\* are what a load without variant returns.
VariantOnlyWeights ==
  (last.op = "from_pretrained" /\ DOMAIN last.overrides = {} /\ View(last.arg).exists) =>
    /\ {f \in last.read : f.name[Len(f.name)] # "bin"} = PlainFiles
    /\ (/\ PlainFiles \subseteq DOMAIN View(last.arg).files
        /\ \A n \in WeightBearing : AskedWeights(n) \in DOMAIN View(last.arg).files)
       => last.ok
    /\ last.ok =>
         \A n \in ConfigOnly :
           /\ last.result.components[n].weights = <<>>
           /\ last.result.components[n] =
                Load(View(last.arg), last.arg, last.caller, None, last.overrides,
                     last.torch_dtype, last.result.components[n].id).components[n]

\* A non_ema load from a folder that holds the variant's weights only: the
\* configuration files it read carry no suffix.
VariantLoadReadPlainConfigs ==
  /\ Loaded
  /\ last.local
  /\ last.variant = "non_ema"
  /\ [dir |-> "unet", name |-> <<"config", "json">>] \in last.read
  /\ [dir |-> "scheduler", name |-> <<"scheduler_config", "json">>] \in last.read
  /\ [dir |-> "unet", name |-> <<"diffusion_pytorch_model", "bin">>]
       \notin DOMAIN folders[last.arg].files
  /\ last.result.components["tokenizer"].weights = <<>>

\* Component n of the checkpoint the call just made read resolves: its
\* unsuffixed files and, if it has weights, the weight file of the variant
\* asked for are in its subfolder.
Resolves(n) ==
  /\ {f \in PlainFiles : f.dir = n} \subseteq DOMAIN View(last.arg).files
  /\ n \in WeightBearing => AskedWeights(n) \in DOMAIN View(last.arg).files

\* The call just made is a pipeline load from a checkpoint with a manifest.
ManifestLoad ==
  /\ last.op = "from_pretrained"
  /\ View(last.arg).exists
  /\ [dir |-> "", name |-> <<"model_index", "json">>] \in DOMAIN View(last.arg).files

\* The components of the manifest the caller did not pass.
NotPassed == {k[1] : k \in PlainKeys(ManifestRead)} \ DOMAIN last.overrides

SomeUnresolved == ManifestLoad /\ \E n \in NotPassed : ~Resolves(n)

====
